---------------------------- MODULE Spec2Model ----------------------------
(***************************************************************************)
(* Ghost-Finder people counter: the centroid tracker (CentroidTracker) and *)
(* the frame loop of PeopleCounter.generate_frames, src/counter.py.        *)
(*                                                                         *)
(* A Python dict keeps insertion order and CentroidTracker.update scans    *)
(* self.objects in that order, so `objects` is a sequence of [id, c]       *)
(* records in insertion order, not a set.                                  *)
(***************************************************************************)
EXTENDS Integers, Sequences, FiniteSets, TLC

VARIABLES
    next_id,          \* CentroidTracker.next_id
    objects,          \* CentroidTracker.objects, in dict insertion order
    disappeared,      \* CentroidTracker.disappeared: id -> frames since seen
    max_distance,     \* CentroidTracker.max_distance
    max_disappeared,  \* CentroidTracker.max_disappeared
    detections,       \* argument of the latest CentroidTracker.update call
    assignments,      \* list returned by the latest CentroidTracker.update
    unmatched,        \* history: id -> updates in a row, while active, that
                      \* assigned no detection to it (kept by the model only)
    skip_frames,      \* PeopleCounter.skip_frames
    lobby_count,      \* PeopleCounter.lobby_count
    last_seen,        \* PeopleCounter.last_seen: id -> frame index
    stale,            \* ids the latest _cleanup_stale_ids call removed
    frame_index,      \* PeopleCounter.frame_index
    events,           \* CountEvent rows, oldest first (their lobby_count)
    pc,               \* position of the running generate_frames generator
    active_ids,       \* generate_frames' local active_ids (line 172)
    log_attempts,     \* appends the latest _log_event call attempted
    cap_open,         \* whether PeopleCounter.cap holds the camera open
    calls,            \* generate_frames() calls made so far
    stats_read,       \* current_stats' local lobby_count between its read
                      \* and its write, StatsIdle when no request is in it
    other             \* a second generator of the same instance while it is
                      \* not the one running: its pc and locals

trackerVars == <<next_id, objects, disappeared, max_distance, max_disappeared,
                 detections, assignments, unmatched>>
counterVars == <<skip_frames, lobby_count, last_seen, stale, frame_index, events, pc,
                 active_ids, log_attempts, cap_open, calls, stats_read, other>>
\* what the steps of one generator's frame cycle never touch
serveVars == <<cap_open, calls, stats_read, other>>
vars == <<next_id, objects, disappeared, max_distance, max_disappeared,
          detections, assignments, unmatched, skip_frames, lobby_count, last_seen,
          stale, frame_index, events, pc, active_ids, log_attempts, cap_open,
          calls, stats_read, other>>

-----------------------------------------------------------------------------
(* Program constants *)

\* CentroidTracker.__init__: max_distance=50 by default
DefaultMaxDistance == 50
\* PeopleCounter.__init__: CentroidTracker(max_distance=70, max_disappeared=12)
LobbyMaxDistance == 70
LobbyMaxDisappeared == 12
\* _cleanup_stale_ids: self.frame_index - last_seen_frame > 90
RetentionWindow == 90

(* Bounds of the model *)

\* identities one run of the tracker harness may create (cap on next_id)
MaxIds == 3
\* identities one run of the pipeline may create (cap on next_id)
MaxIdsLobby == 2
\* detections in one frame, tracker harness
MaxDet == 2
\* largest max_disappeared the tracker harness constructs
MaxDisappearedParam == 2
\* frames the source supplies in the pipeline run
MaxFrames == 15
\* CountEvent rows after which the pipeline run's source ends
MaxEvents == 3
\* frames the source supplies in the long pipeline run
MaxFramesLong == 104
\* frames of the long run during which somebody may be in view
BusyFrames == 11

-----------------------------------------------------------------------------
(* Centroids.  |PA PB| = 50 and |PA PC| = 80: PB is near PA under          *)
(* max_distance 70 and not under 50 (50 is not < 50); PC is far from PA    *)
(* under both.                                                             *)
PA == <<0, 0>>
PB == <<30, 40>>
PC == <<0, 80>>

TrackerPoints == {PA, PB}

\* all lists of at most n centroids of P
RECURSIVE ListsUpTo(_, _)
ListsUpTo(P, n) ==
    IF n = 0 THEN {<<>>}
    ELSE LET shorter == ListsUpTo(P, n - 1)
         IN  shorter \cup {Append(s, p) : s \in {t \in shorter : Len(t) = n - 1}, p \in P}

\* the detection lists the tracker harness draws from
TrackerLists == ListsUpTo(TrackerPoints, MaxDet)

\* the detection lists the detector returns in the pipeline run: nobody,
\* somebody at PA, somebody at PC, or both
LobbyLists == {<<>>, <<PA>>, <<PC>>, <<PA, PC>>}

\* skip strides of the long run: 101 is a processed frame under 1 and a
\* skipped one under 2; under 8 an identity stays active for 96 frames
StridesLong == {1, 2, 8}

\* skip strides the pipeline is constructed with
Strides == {1, 2, 3}

-----------------------------------------------------------------------------
(* CentroidTracker *)

\* no identity: best_id None (line 43) and the -1 assignments start as (line 27)
NoneId == -1

\* stats_read while no request is inside current_stats
StatsIdle == -1

\* other while the instance has no second generator
NoOther == [pc |-> "none", assignments |-> <<>>, active_ids |-> {}]

\* the keys of a dict kept as a sequence of [id, c] records
Keys(objs) == {objs[k].id : k \in 1..Len(objs)}

\* objs[id] for a key of the dict
Centroid(objs, id) == objs[CHOOSE k \in 1..Len(objs) : objs[k].id = id].c

\* dict[id] = v on a dict kept as a function
Put(d, id, v) == [i \in DOMAIN d \cup {id} |-> IF i = id THEN v ELSE d[i]]

\* math.hypot(cx - ox, cy - oy) squared: on integer centroids hypot(..) < m
\* iff the squared distance is < m*m, and hypot is monotonic in it
Dist2(a, b) == (a[1] - b[1]) * (a[1] - b[1]) + (a[2] - b[2]) * (a[2] - b[2])

\* ScanObjects with "dist <= self.max_distance" for "dist < self.max_distance"
RECURSIVE ScanObjects_NonStrict(_, _, _, _, _, _)
ScanObjects_NonStrict(k, objs, used_ids, det, maxd, best) ==
    IF k > Len(objs) THEN best
    ELSE LET o == objs[k]
             dist2 == Dist2(det, o.c)
         IN  IF o.id \in used_ids
             THEN ScanObjects_NonStrict(k + 1, objs, used_ids, det, maxd, best)
             ELSE IF (best.id = NoneId \/ dist2 < best.d2) /\ dist2 <= maxd * maxd
                  THEN ScanObjects_NonStrict(k + 1, objs, used_ids, det, maxd,
                                             [id |-> o.id, d2 |-> dist2])
                  ELSE ScanObjects_NonStrict(k + 1, objs, used_ids, det, maxd, best)

\* update, lines 45-51: one scan of self.objects in dict order for one
\* detection; best is [id, d2], id = NoneId while best_dist is still inf
RECURSIVE ScanObjects(_, _, _, _, _, _)
ScanObjects(k, objs, used_ids, det, maxd, best) ==
    IF k > Len(objs) THEN best
    ELSE LET o == objs[k]
             dist2 == Dist2(det, o.c)
         IN  IF o.id \in used_ids
             THEN ScanObjects(k + 1, objs, used_ids, det, maxd, best)
             ELSE IF (best.id = NoneId \/ dist2 < best.d2) /\ dist2 < maxd * maxd
                  THEN ScanObjects(k + 1, objs, used_ids, det, maxd,
                                   [id |-> o.id, d2 |-> dist2])
                  ELSE ScanObjects(k + 1, objs, used_ids, det, maxd, best)

\* BestId without the "if obj_id in used_ids: continue" of lines 46-47
BestId_IgnoreUsed(objs, used_ids, det, maxd) ==
    ScanObjects(1, objs, {}, det, maxd, [id |-> NoneId, d2 |-> 0]).id

\* update, lines 43-51: best_id for one detection, NoneId for None
BestId(objs, used_ids, det, maxd) ==
    ScanObjects(1, objs, used_ids, det, maxd, [id |-> NoneId, d2 |-> 0]).id

\* RegisterAll that uses the detection's index as its id
RECURSIVE RegisterAll_IndexIds(_, _, _)
RegisterAll_IndexIds(i, dets, st) ==
    IF i > Len(dets) THEN st
    ELSE RegisterAll_IndexIds(i + 1, dets,
             [objects     |-> Append(st.objects, [id |-> i - 1, c |-> dets[i]]),
              disappeared |-> Put(st.disappeared, i - 1, 0),
              next_id     |-> IF i > st.next_id THEN i ELSE st.next_id,
              assignments |-> Append(st.assignments, i - 1)])

\* update, lines 30-36: no object tracked, every detection is registered
\* in self.objects itself; st is [objects, disappeared, next_id, assignments]
RECURSIVE RegisterAll(_, _, _)
RegisterAll(i, dets, st) ==
    IF i > Len(dets) THEN st
    ELSE RegisterAll(i + 1, dets,
             [objects     |-> Append(st.objects, [id |-> st.next_id, c |-> dets[i]]),
              disappeared |-> Put(st.disappeared, st.next_id, 0),
              next_id     |-> st.next_id + 1,
              assignments |-> Append(st.assignments, st.next_id)])

\* GreedyMatch without "self.disappeared[best_id] = 0" (line 62)
RECURSIVE GreedyMatch_NoReset(_, _, _, _, _)
GreedyMatch_NoReset(i, dets, objs, maxd, st) ==
    IF i > Len(dets) THEN st
    ELSE LET best_id == BestId(objs, st.used_ids, dets[i], maxd)
             id == IF best_id = NoneId THEN st.next_id ELSE best_id
         IN  GreedyMatch_NoReset(i + 1, dets, objs, maxd,
                 [new_objects |-> Append(st.new_objects, [id |-> id, c |-> dets[i]]),
                  used_ids    |-> st.used_ids \cup {id},
                  disappeared |-> IF best_id = NoneId
                                  THEN Put(st.disappeared, id, 0)
                                  ELSE st.disappeared,
                  next_id     |-> IF best_id = NoneId THEN st.next_id + 1
                                  ELSE st.next_id,
                  assignments |-> Append(st.assignments, id)])

\* update, lines 42-64: greedy matching in input order against self.objects
\* (objs, fixed during the loop); st is [new_objects, used_ids, disappeared,
\* next_id, assignments]
RECURSIVE GreedyMatch(_, _, _, _, _)
GreedyMatch(i, dets, objs, maxd, st) ==
    IF i > Len(dets) THEN st
    ELSE LET best_id == BestId(objs, st.used_ids, dets[i], maxd)
             id == IF best_id = NoneId THEN st.next_id ELSE best_id
         IN  GreedyMatch(i + 1, dets, objs, maxd,
                 [new_objects |-> Append(st.new_objects, [id |-> id, c |-> dets[i]]),
                  used_ids    |-> st.used_ids \cup {id},
                  disappeared |-> Put(st.disappeared, id, 0),
                  next_id     |-> IF best_id = NoneId THEN st.next_id + 1
                                  ELSE st.next_id,
                  assignments |-> Append(st.assignments, id)])

\* Survives with "<" for "<=": dropped one update early
Survives_Early(count, maxdis) == count < maxdis

\* Survives with the threshold one too high: dropped one update late
Survives_Late(count, maxdis) == count <= maxdis + 1

\* update, line 71: an unmatched object stays while this holds
Survives(count, maxdis) == count <= maxdis

\* update, lines 67-72: every object of self.objects that is not in
\* new_objects ages by one and is kept while it survives
RECURSIVE HandleDisappeared(_, _, _, _)
HandleDisappeared(k, objs, maxdis, st) ==
    IF k > Len(objs) THEN st
    ELSE LET o == objs[k]
             count == st.disappeared[o.id] + 1
         IN  IF o.id \in Keys(st.new_objects)
             THEN HandleDisappeared(k + 1, objs, maxdis, st)
             ELSE HandleDisappeared(k + 1, objs, maxdis,
                      [st EXCEPT !.disappeared = Put(@, o.id, count),
                                 !.new_objects = IF Survives(count, maxdis)
                                                 THEN Append(@, o) ELSE @])

\* CentroidTracker.update(detections) on the tracker (objs, dis, nid):
\* the new [objects, disappeared, next_id] and the assignments returned
Update(objs, dis, nid, maxd, maxdis, dets) ==
    IF Len(objs) = 0
    THEN RegisterAll(1, dets, [objects |-> objs, disappeared |-> dis,
                               next_id |-> nid, assignments |-> <<>>])
    ELSE LET m == GreedyMatch(1, dets, objs, maxd,
                      [new_objects |-> <<>>, used_ids |-> {}, disappeared |-> dis,
                       next_id |-> nid, assignments |-> <<>>])
             h == HandleDisappeared(1, objs, maxdis, m)
         IN  [objects |-> h.new_objects, disappeared |-> h.disappeared,
              next_id |-> h.next_id, assignments |-> h.assignments]

\* the elements of a list
Range(seq) == {seq[i] : i \in 1..Len(seq)}

\* the history variable after an update of tracker objs that returned asg:
\* 0 for an id a detection was assigned to, one more for an active id left
\* without one, unchanged for an id that is no longer tracked
Unmatched(objs, asg) ==
    [id \in DOMAIN unmatched \cup Range(asg) |->
        IF id \in Range(asg) THEN 0
        ELSE IF id \in Keys(objs) THEN unmatched[id] + 1
        ELSE unmatched[id]]

\* tracker.update called from the state: the tracker's variables after it
TrackerUpdate(dets) ==
    LET r == Update(objects, disappeared, next_id, max_distance, max_disappeared, dets)
    IN  /\ objects' = r.objects
        /\ disappeared' = r.disappeared
        /\ next_id' = r.next_id
        /\ assignments' = r.assignments
        /\ detections' = dets
        /\ unmatched' = Unmatched(objects, r.assignments)
        /\ UNCHANGED <<max_distance, max_disappeared>>

\* the tracker alone: CentroidTracker(max_distance, max_disappeared), then
\* any sequence of update calls
InitTracker ==
    /\ next_id = 0
    /\ objects = <<>>
    /\ disappeared = <<>>
    /\ max_distance \in {DefaultMaxDistance, LobbyMaxDistance}
    /\ max_disappeared \in 0..MaxDisappearedParam
    /\ detections = <<>>
    /\ assignments = <<>>
    /\ unmatched = <<>>
    /\ skip_frames = 1
    /\ lobby_count = 0
    /\ last_seen = <<>>
    /\ stale = {}
    /\ frame_index = 0
    /\ events = <<>>
    /\ pc = "idle"
    /\ active_ids = {}
    /\ log_attempts = 0
    /\ cap_open = FALSE
    /\ calls = 0
    /\ stats_read = StatsIdle
    /\ other = NoOther

UpdateCall ==
    \E dets \in TrackerLists :
        /\ TrackerUpdate(dets)
        /\ next_id' <= MaxIds
        /\ UNCHANGED counterVars

NextTracker == UpdateCall

SpecTracker == InitTracker /\ [][NextTracker]_vars

-----------------------------------------------------------------------------
(* PeopleCounter *)

\* StaleIds with ">= 90" for "> 90"
StaleIds_AtWindow(ls, active, f) ==
    {obj_id \in DOMAIN ls :
        obj_id \notin active /\ f - ls[obj_id] >= RetentionWindow}

\* _cleanup_stale_ids(active) at self.frame_index = f, lines 122-127:
\* the ids collected in the local list stale
StaleIds(ls, active, f) ==
    {obj_id \in DOMAIN ls :
        obj_id \notin active /\ f - ls[obj_id] > RetentionWindow}

\* _cleanup_stale_ids, lines 128-129: last_seen without the ids of gone
CleanupStaleIds(ls, gone) == [obj_id \in DOMAIN ls \ gone |-> ls[obj_id]]

\* generate_frames, lines 185-189: last_seen after the loop over the
\* assigned detections
MarkSeen(ls, asg, f) ==
    [obj_id \in DOMAIN ls \cup (Range(asg) \ {NoneId}) |->
        IF obj_id \in Range(asg) THEN f ELSE ls[obj_id]]

\* PeopleCounter.__init__, lines 97-111, with skip stride n, and the first
\* generate_frames() call, not yet run
InitCounter(n) ==
    /\ next_id = 0
    /\ objects = <<>>
    /\ disappeared = <<>>
    /\ max_distance = LobbyMaxDistance
    /\ max_disappeared = LobbyMaxDisappeared
    /\ detections = <<>>
    /\ assignments = <<>>
    /\ unmatched = <<>>
    /\ skip_frames = n
    /\ lobby_count = 0
    /\ last_seen = <<>>
    /\ stale = {}
    /\ frame_index = 0
    /\ events = <<>>
    /\ pc = "acquire"
    /\ active_ids = {}
    /\ log_attempts = 0
    /\ cap_open = TRUE
    /\ calls = 1
    /\ stats_read = StatsIdle
    /\ other = NoOther

\* AcquireFrame with the stride test inverted ("== 0" for "!= 0")
AcquireFrame_Inverted ==
    /\ pc \in {"acquire", "yielded"}
    /\ frame_index' = frame_index + 1
    /\ pc' = IF frame_index' % skip_frames = 0 THEN "acquire" ELSE "track"
    /\ UNCHANGED <<trackerVars, skip_frames, lobby_count, last_seen, stale, events,
                   active_ids, log_attempts, serveVars>>

\* generate_frames, lines 134-144: cap.read() gives a frame; the frame
\* index advances and the frame is dropped unless the stride divides it
AcquireFrame ==
    /\ pc \in {"acquire", "yielded"}
    /\ frame_index' = frame_index + 1
    /\ pc' = IF frame_index' % skip_frames # 0 THEN "acquire" ELSE "track"
    /\ UNCHANGED <<trackerVars, skip_frames, lobby_count, last_seen, stale, events,
                   active_ids, log_attempts, serveVars>>

\* SourceEnds with line 138 ahead of the test of line 135
SourceEnds_Counts ==
    /\ pc \in {"acquire", "yielded"}
    /\ pc' = "done"
    /\ frame_index' = frame_index + 1
    /\ UNCHANGED <<trackerVars, skip_frames, lobby_count, last_seen, stale,
                   events, active_ids, log_attempts, serveVars>>

\* generate_frames, lines 134-136: cap.read() fails, the generator ends
SourceEnds ==
    /\ pc \in {"acquire", "yielded"}
    /\ pc' = "done"
    /\ UNCHANGED <<trackerVars, skip_frames, lobby_count, last_seen, stale,
                   frame_index, events, active_ids, log_attempts, serveVars>>

\* generate_frames, lines 146-173: the detector's centroids dets go to
\* tracker.update, then _cleanup_stale_ids runs on the new active ids
Track(dets) ==
    /\ pc = "track"
    /\ TrackerUpdate(dets)
    /\ active_ids' = Keys(objects')
    /\ stale' = StaleIds(last_seen, active_ids', frame_index)
    /\ last_seen' = CleanupStaleIds(last_seen, stale')
    /\ pc' = "aggregate"
    /\ UNCHANGED <<skip_frames, lobby_count, frame_index, events, log_attempts,
                   serveVars>>

\* _log_event, lines 114-118: a CountEvent row with the current lobby_count
LogEvent(log, count) == Append(log, count)

\* Aggregate without the comparison of line 177: every processed frame logs
Aggregate_AlwaysLog ==
    /\ pc = "aggregate"
    /\ lobby_count' = Cardinality(active_ids)
    /\ events' = LogEvent(events, lobby_count')
    /\ log_attempts' = 1
    /\ pc' = "annotate"
    /\ UNCHANGED <<trackerVars, skip_frames, last_seen, stale, frame_index,
                   active_ids, serveVars>>

\* Aggregate without "self.lobby_count = current_lobby" (line 178)
Aggregate_NoStore ==
    /\ pc = "aggregate"
    /\ LET current_lobby == Cardinality(active_ids)
       IN  IF current_lobby # lobby_count
           THEN events' = LogEvent(events, current_lobby) /\ log_attempts' = 1
           ELSE UNCHANGED <<events, log_attempts>>
    /\ UNCHANGED lobby_count
    /\ pc' = "annotate"
    /\ UNCHANGED <<trackerVars, skip_frames, last_seen, stale, frame_index,
                   active_ids, serveVars>>

\* generate_frames, lines 175-179: the lobby count follows the active ids
\* and a CountEvent is logged when it changed
Aggregate ==
    /\ pc = "aggregate"
    /\ LET current_lobby == Cardinality(active_ids)
       IN  IF current_lobby # lobby_count
           THEN /\ lobby_count' = current_lobby
                /\ events' = LogEvent(events, lobby_count')
                /\ log_attempts' = 1
           ELSE UNCHANGED <<lobby_count, events, log_attempts>>
    /\ pc' = "annotate"
    /\ UNCHANGED <<trackerVars, skip_frames, last_seen, stale, frame_index,
                   active_ids, serveVars>>

\* Emit with "break" for the "continue" of line 204
Emit_BreakOnFail(ret) ==
    /\ pc = "annotate"
    /\ last_seen' = MarkSeen(last_seen, assignments, frame_index)
    /\ pc' = IF ret THEN "yielded" ELSE "done"
    /\ UNCHANGED <<trackerVars, skip_frames, lobby_count, stale, frame_index, events,
                   active_ids, log_attempts, serveVars>>

\* generate_frames, lines 181-208: the assigned ids are marked seen, the
\* frame is encoded and yielded, or dropped when encoding fails
Emit(ret) ==
    /\ pc = "annotate"
    /\ last_seen' = MarkSeen(last_seen, assignments, frame_index)
    /\ pc' = IF ret THEN "yielded" ELSE "acquire"
    /\ UNCHANGED <<trackerVars, skip_frames, lobby_count, stale, frame_index, events,
                   active_ids, log_attempts, serveVars>>

\* the pipeline: a source of MaxFrames frames that ends once MaxEvents
\* events are logged, any detector output of LobbyLists that creates no
\* more than MaxIdsLobby identities
Init == \E n \in Strides : InitCounter(n)

Acquire ==
    /\ frame_index < MaxFrames
    /\ Len(events) < MaxEvents
    /\ AcquireFrame

Detect ==
    \E dets \in LobbyLists :
        /\ Track(dets)
        /\ next_id' <= MaxIdsLobby

Encode == \E ret \in BOOLEAN : Emit(ret)

Next ==
    \/ Acquire
    \/ SourceEnds
    \/ Detect
    \/ Aggregate
    \/ Encode

Spec == Init /\ [][Next]_vars


\* the long run: a source of MaxFramesLong frames in front of a scene that
\* is empty after its first BusyFrames frames
InitLong == \E n \in StridesLong : InitCounter(n)

AcquireLong ==
    /\ frame_index < MaxFramesLong
    /\ AcquireFrame

DetectLong ==
    \E dets \in (IF frame_index <= BusyFrames THEN LobbyLists ELSE {<<>>}) :
        /\ Track(dets)
        /\ next_id' <= MaxIdsLobby

NextLong ==
    \/ AcquireLong
    \/ SourceEnds
    \/ DetectLong
    \/ Aggregate
    \/ Encode

SpecLong == InitLong /\ [][NextLong]_vars

-----------------------------------------------------------------------------
(* Failures and disconnects.  generate_frames has no try/except and        *)
(* _log_event none either: an exception raised inside the loop leaves the  *)
(* generator, which is then finished.  The state of the instance stays, and *)
(* video_feed (src/app.py) calls generate_frames() on the same instance for *)
(* every request.                                                          *)

\* frames the source supplies where failures and disconnects are modelled
MaxFramesServe == 4
\* generate_frames() calls made on the instance
MaxCalls == 2

StridesServe == {1, 2}

\* generate_frames, lines 177-179, when db.session.add/commit raises inside
\* _log_event (lines 114-118): line 178 has stored the new count, the one
\* attempt is not repeated and the exception leaves generate_frames
AppendFails ==
    /\ pc = "aggregate"
    /\ Cardinality(active_ids) # lobby_count
    /\ lobby_count' = Cardinality(active_ids)
    /\ log_attempts' = 1
    /\ pc' = "append_error"
    /\ UNCHANGED <<trackerVars, skip_frames, last_seen, stale, frame_index, events,
                   active_ids, serveVars>>

\* generate_frames, lines 147-155, when self.model.predict raises: the
\* exception leaves generate_frames before tracker.update (line 171)
DetectFails ==
    /\ pc = "track"
    /\ pc' = "detect_error"
    /\ UNCHANGED <<trackerVars, skip_frames, lobby_count, last_seen, stale,
                   frame_index, events, active_ids, log_attempts, serveVars>>

\* the consumer disconnects: the generator is closed while suspended at
\* the yield of lines 208-209; the function has no finally clause
Close ==
    /\ pc = "yielded"
    /\ pc' = "closed"
    /\ UNCHANGED <<trackerVars, skip_frames, lobby_count, last_seen, stale,
                   frame_index, events, active_ids, log_attempts, serveVars>>

\* Reconnect as if generate_frames() began with a fresh tracker and frame
\* counter
Reconnect_Fresh ==
    /\ pc \in {"closed", "append_error", "detect_error"}
    /\ calls < MaxCalls
    /\ calls' = calls + 1
    /\ pc' = "acquire"
    /\ next_id' = 0
    /\ objects' = <<>>
    /\ disappeared' = <<>>
    /\ last_seen' = <<>>
    /\ frame_index' = 0
    /\ UNCHANGED <<max_distance, max_disappeared, detections, assignments,
                   unmatched, skip_frames, lobby_count, stale, events,
                   active_ids, log_attempts, cap_open, stats_read, other>>

\* video_feed, src/app.py lines 44-49, after the earlier generator was
\* closed or left by an exception: a new generate_frames() generator on
\* the same PeopleCounter, not yet run
Reconnect ==
    /\ pc \in {"closed", "append_error", "detect_error"}
    /\ calls < MaxCalls
    /\ calls' = calls + 1
    /\ pc' = "acquire"
    /\ UNCHANGED <<trackerVars, skip_frames, lobby_count, last_seen, stale,
                   frame_index, events, active_ids, log_attempts, cap_open,
                   stats_read, other>>

InitServe == \E n \in StridesServe : InitCounter(n)

AcquireServe ==
    /\ frame_index < MaxFramesServe
    /\ AcquireFrame

NextServe ==
    \/ AcquireServe
    \/ SourceEnds
    \/ Detect
    \/ DetectFails
    \/ Aggregate
    \/ AppendFails
    \/ Encode
    \/ Close
    \/ Reconnect

SpecServe == InitServe /\ [][NextServe]_vars

\* one generator whose consumer keeps pulling until the stream ends, on a
\* source of MaxFramesServe frames: when they are used up cap.read fails
\* (SourceEnds is the only step left at the top of the loop).  The
\* consumer's pulls resume the generator again and again, and every
\* statement of the loop returns, so a step that can be taken is taken.
InitLive == \E n \in Strides : InitCounter(n)

NextLive ==
    \/ AcquireServe
    \/ SourceEnds
    \/ Detect
    \/ DetectFails
    \/ Aggregate
    \/ AppendFails
    \/ Encode

SpecLive == InitLive /\ [][NextLive]_vars /\ WF_vars(NextLive)

-----------------------------------------------------------------------------
(* Requests for / and /api/stats while a generator runs.  The server runs  *)
(* each request in a thread of its own and neither current_stats nor       *)
(* generate_frames takes a lock, so the read and the write of              *)
(* current_stats are separate steps that interleave with the frame cycle.  *)

\* current_stats, src/app.py lines 27-28: the lobby_count of the latest
\* CountEvent, 0 when there is none
StatsRead ==
    /\ stats_read = StatsIdle
    /\ stats_read' = IF events = <<>> THEN 0 ELSE events[Len(events)]
    /\ UNCHANGED <<trackerVars, skip_frames, lobby_count, last_seen, stale,
                   frame_index, events, pc, active_ids, log_attempts, cap_open,
                   calls, other>>

\* current_stats, src/app.py lines 30-32: people_counter.lobby_count is
\* overwritten with the value read
StatsWrite ==
    /\ stats_read # StatsIdle
    /\ lobby_count' = stats_read
    /\ stats_read' = StatsIdle
    /\ UNCHANGED <<trackerVars, skip_frames, last_seen, stale, frame_index, events,
                   pc, active_ids, log_attempts, cap_open, calls, other>>

NextStats ==
    \/ AcquireServe
    \/ SourceEnds
    \/ Detect
    \/ Aggregate
    \/ Encode
    \/ StatsRead
    \/ StatsWrite

SpecStats == InitServe /\ [][NextStats]_vars

-----------------------------------------------------------------------------
(* Two consumers of /video_feed.  video_feed calls generate_frames() on    *)
(* the one PeopleCounter for every request, so each response has a         *)
(* generator of its own over the shared cap, tracker, lobby_count,         *)
(* last_seen and frame_index; nothing serialises the two.  pc, assignments *)
(* and active_ids are those of the generator that runs, `other` keeps      *)
(* those of the one that waits.                                            *)

\* video_feed, src/app.py lines 44-49, for a second request while the first
\* response is still streaming
SecondViewer ==
    /\ other.pc = "none"
    /\ calls < MaxCalls
    /\ calls' = calls + 1
    /\ other' = [pc |-> "acquire", assignments |-> <<>>, active_ids |-> {}]
    /\ UNCHANGED <<trackerVars, skip_frames, lobby_count, last_seen, stale,
                   frame_index, events, pc, active_ids, log_attempts, cap_open,
                   stats_read>>

\* the scheduler lets the other generator run: each resumes where it
\* stopped, with its own locals
Switch ==
    /\ other.pc \notin {"none", "done"}
    /\ pc' = other.pc
    /\ assignments' = other.assignments
    /\ active_ids' = other.active_ids
    /\ other' = [pc |-> pc, assignments |-> assignments, active_ids |-> active_ids]
    /\ UNCHANGED <<next_id, objects, disappeared, max_distance, max_disappeared,
                   detections, unmatched, skip_frames, lobby_count, last_seen,
                   stale, frame_index, events, log_attempts, cap_open, calls,
                   stats_read>>

NextViewers ==
    \/ AcquireServe
    \/ SourceEnds
    \/ Detect
    \/ Aggregate
    \/ Encode
    \/ SecondViewer
    \/ Switch

SpecViewers == InitServe /\ [][NextViewers]_vars


-----------------------------------------------------------------------------
(* Properties of CentroidTracker.update.  Under SpecTracker every step is  *)
(* one update call: the unprimed variables are the tracker before the      *)
(* call, detections' its argument and assignments' the list it returns.    *)

\* ids that some update has assigned so far, i.e. every identity created
EverCreated == DOMAIN unmatched

\* positions of assignments' whose identity was not tracked before the call
NewAt == {i \in 1..Len(assignments') : assignments'[i] \notin Keys(objects)}

\* C3: every identity created by an update has an id greater than every id
\* created before it (in earlier calls and earlier in the same call), and
\* an id that was created and is no longer active is neither assigned to a
\* detection nor active after any later update.
C3_IdsIncreaseNeverReused ==
    [][ /\ \A i \in NewAt : \A old \in EverCreated : assignments'[i] > old
        /\ \A i \in NewAt : \A j \in NewAt : i < j => assignments'[i] < assignments'[j]
        /\ \A id \in EverCreated \ Keys(objects) :
               id \notin Keys(objects') /\ id \notin Range(assignments')
      ]_vars

\* C3 witness: identity 0 was dropped and a later update created the active
\* identity it assigned to its first detection
C3_Witness ==
    /\ 0 \in EverCreated \ Keys(objects)
    /\ Len(assignments) >= 1
    /\ assignments[1] = next_id - 1
    /\ assignments[1] \in Keys(objects)
    /\ unmatched[0] > 0

\* C4: the list an update returns has one identity per detection, and no
\* identity twice; each detection's identity is active at its centroid.
C4_OneToOne ==
    /\ Len(assignments) = Len(detections)
    /\ \A i \in 1..Len(assignments) :
           /\ assignments[i] \in Nat
           /\ assignments[i] \in Keys(objects)
           /\ Centroid(objects, assignments[i]) = detections[i]
    /\ \A i \in 1..Len(assignments) : \A j \in 1..Len(assignments) :
           i # j => assignments[i] # assignments[j]
    /\ Cardinality(Keys(objects)) = Len(objects)

\* C4 witness: two detections with the same centroid, the first matched to
\* the tracked identity 0 and the second given a new identity
C4_Witness ==
    /\ Len(detections) = 2
    /\ detections[1] = detections[2]
    /\ assignments[1] = 0
    /\ assignments[2] = next_id - 1
    /\ assignments[2] >= 2

\* C5: after every update the active set is the set of created ids whose
\* disappeared count is at most max_disappeared, and it has at most next_id
\* members, next_id being the number of identities created.
C5_ActiveSet ==
    /\ DOMAIN disappeared = EverCreated
    /\ Keys(objects) = {id \in EverCreated : disappeared[id] <= max_disappeared}
    /\ next_id = Cardinality(EverCreated)
    /\ Cardinality(Keys(objects)) <= next_id

\* C5 witness: one identity has been dropped, one is ageing, one was just seen
C5_Witness ==
    /\ Cardinality(EverCreated \ Keys(objects)) >= 1
    /\ \E id \in Keys(objects) : disappeared[id] = max_disappeared /\ max_disappeared > 0
    /\ \E id \in Keys(objects) : disappeared[id] = 0

\* the state part of C6
C6_State ==
    \A id \in EverCreated :
        /\ id \in Keys(objects) <=> unmatched[id] <= max_disappeared
        /\ id \notin Keys(objects) => unmatched[id] = max_disappeared + 1

\* C6: an identity left unmatched by n updates in a row is active after the
\* n-th while n <= max_disappeared and is removed by the update that makes
\* n = max_disappeared + 1; once removed it is never active again.
C6_ExpiryExact ==
    [][ /\ C6_State'
        /\ \A id \in EverCreated \ Keys(objects) : id \notin Keys(objects')
      ]_vars

\* C6 witness: identity 0 was removed by its (max_disappeared+1)-th unmatched
\* update while identity 1, unmatched max_disappeared times, is still active
C6_Witness ==
    /\ max_disappeared >= 1
    /\ 0 \in EverCreated \ Keys(objects)
    /\ unmatched[0] = max_disappeared + 1
    /\ 1 \in Keys(objects)
    /\ unmatched[1] = max_disappeared

\* C7: an update sets the disappeared count of an active identity to 0 when
\* it assigns a detection to it and adds exactly 1 otherwise, so the count is
\* the number of unmatched updates in a row; an update with no detection
\* adds 1 to every active identity, changes nothing of an identity that is
\* no longer active, moves no centroid and creates no identity.
C7_DisappearedCount ==
    [][ /\ \A id \in Keys(objects) :
               disappeared'[id] = IF id \in Range(assignments') THEN 0
                                  ELSE disappeared[id] + 1
        /\ \A id \in Keys(objects') : disappeared'[id] = unmatched'[id]
        /\ detections' = <<>> =>
               /\ next_id' = next_id
               /\ assignments' = <<>>
               /\ Keys(objects') \subseteq Keys(objects)
               /\ \A id \in Keys(objects') :
                      Centroid(objects', id) = Centroid(objects, id)
               /\ \A id \in Keys(objects) : disappeared'[id] = disappeared[id] + 1
               /\ \A id \in DOMAIN disappeared \ Keys(objects) :
                      disappeared'[id] = disappeared[id]
      ]_vars

\* C7 witness: after an update with no detection, identity 0 has been
\* unmatched twice and identity 1 once (it was matched in between)
C7_Witness ==
    /\ detections = <<>>
    /\ {0, 1} \subseteq Keys(objects)
    /\ disappeared[0] = 2
    /\ disappeared[1] = 1

\* identities a detection at position i may be matched to: tracked before
\* the call, not assigned to an earlier detection, nearer than max_distance
C8_Candidates(i) ==
    {id \in Keys(objects) \ {assignments'[j] : j \in 1..(i - 1)} :
        Dist2(detections'[i], Centroid(objects, id)) < max_distance * max_distance}

\* C8: detections are handled in input order; each is assigned a candidate
\* at minimum distance, or, when it has no candidate, a new identity with
\* the next id at its centroid; identities created in the call are never
\* candidates.
C8_GreedyNearest ==
    [][ /\ Len(assignments') = Len(detections')
        /\ \A i \in 1..Len(detections') :
               LET cands == C8_Candidates(i)
                   a == assignments'[i]
               IN  /\ a \in Keys(objects')
                   /\ Centroid(objects', a) = detections'[i]
                   /\ IF cands = {}
                      THEN a = next_id + Cardinality({j \in NewAt : j < i})
                      ELSE /\ a \in cands
                           /\ \A c \in cands :
                                  Dist2(detections'[i], Centroid(objects, a))
                                      <= Dist2(detections'[i], Centroid(objects, c))
      ]_vars

\* C8 witness: identity 0 stayed unmatched while two detections at the same
\* far centroid each got a new identity, the second not taking the first's
C8_Witness ==
    /\ Len(detections) = 2
    /\ detections[1] = detections[2]
    /\ 0 \in Keys(objects)
    /\ 0 \notin Range(assignments)
    /\ disappeared[0] >= 1
    /\ assignments[2] = assignments[1] + 1

-----------------------------------------------------------------------------
(* Properties of PeopleCounter.generate_frames *)

\* the number of identities in the tracker's active set
ActiveCount == Cardinality(Keys(objects))

\* the step from tracker.update's return to the end of the count update
AggregateStep == pc = "aggregate" /\ pc' = "annotate"

\* C1: a processed frame appends a CountEvent iff the active-set size after
\* tracker.update differs from lobby_count, which only the count update of a
\* processed frame changes; the event carries the new size; no other step
\* appends or removes an event, and no two events in a row carry the same
\* count (the first one is not 0, the count before any frame).
C1_EventIffChanged ==
    [][ /\ AggregateStep =>
               /\ events' # events <=> ActiveCount # lobby_count
               /\ events' # events => events' = Append(events, ActiveCount)
               /\ lobby_count' = ActiveCount
        /\ ~AggregateStep => events' = events /\ lobby_count' = lobby_count
        /\ \A i \in 1..Len(events') :
               events'[i] # (IF i = 1 THEN 0 ELSE events'[i - 1])
      ]_vars

\* C1 witness: the counts 1, 2, 2, ..., 2, 1 of fifteen processed frames
\* have given exactly the events 1, 2, 1
C1_Witness ==
    /\ events = <<1, 2, 1>>
    /\ skip_frames = 1
    /\ frame_index = LobbyMaxDisappeared + 3
    /\ pc = "yielded"

\* C2: whenever the generator is not between tracker.update and the count
\* update, so at the end of every processed frame cycle, lobby_count is the
\* number of identities in the active set.
C2_LobbyCountIsActiveCount ==
    pc # "aggregate" => lobby_count = ActiveCount

\* C2 witness: a processed frame cycle has ended with one of two identities
\* dropped and the other active
C2_Witness ==
    /\ pc = "yielded"
    /\ next_id = 2
    /\ lobby_count = 1
    /\ Len(objects) = 1
    /\ Cardinality(EverCreated \ Keys(objects)) = 1

\* what a skipped frame must leave alone
C9_Kept == <<next_id, objects, disappeared, assignments, lobby_count, last_seen, events>>

\* C9: every acquired frame adds exactly 1 to frame_index; a frame whose
\* index the stride does not divide leaves the tracker, lobby_count,
\* last_seen and the event log unchanged and returns to acquisition without
\* an output item; the tracker, lobby_count, last_seen and the event log
\* change, and an output item is produced, only in the cycle of a frame
\* whose index the stride divides.
C9_SkipStride ==
    [][ /\ frame_index' # frame_index =>
               frame_index' = frame_index + 1 /\ pc \in {"acquire", "yielded"}
        /\ (pc \in {"acquire", "yielded"} /\ pc' # "done") =>
               frame_index' = frame_index + 1
        /\ (frame_index' # frame_index /\ frame_index' % skip_frames # 0) =>
               pc' = "acquire" /\ C9_Kept' = C9_Kept
        /\ (frame_index' # frame_index /\ frame_index' % skip_frames = 0) =>
               pc' = "track" /\ C9_Kept' = C9_Kept
        /\ (C9_Kept' # C9_Kept \/ (pc' = "yielded" /\ pc # "yielded")) =>
               /\ frame_index' = frame_index
               /\ frame_index % skip_frames = 0
               /\ pc \in {"track", "aggregate", "annotate"}
      ]_vars

\* C9 witness: under stride 3 frame 4 was skipped after frame 3 was processed
\* and created an identity
C9_Witness ==
    /\ skip_frames = 3
    /\ frame_index = 4
    /\ pc = "acquire"
    /\ next_id = 1
    /\ last_seen = (0 :> 3)

\* the frame of the latest cycle whose stale-memory cleanup has run
C10_Cleaned ==
    IF pc = "track" THEN frame_index - skip_frames
    ELSE frame_index - (frame_index % skip_frames)

\* the cleanup step removes exactly the entries of inactive ids older than
\* the retention window and changes no other entry
C10_RemovesExactly ==
    (pc = "track" /\ pc' = "aggregate") =>
        /\ DOMAIN last_seen' \subseteq DOMAIN last_seen
        /\ stale' = DOMAIN last_seen \ DOMAIN last_seen'
        /\ \A id \in DOMAIN last_seen :
               /\ id \notin DOMAIN last_seen' <=>
                      (id \notin Keys(objects')
                           /\ frame_index - last_seen[id] > RetentionWindow)
               /\ id \in DOMAIN last_seen' => last_seen'[id] = last_seen[id]

\* an entry last seen at frame 10 of an id that is not active outlasts
\* every step up to the end of frame 100's cycle
C10_StillPresent ==
    \A id \in DOMAIN last_seen :
        (last_seen[id] = 10 /\ id \notin Keys(objects') /\ frame_index' <= 100) =>
            (id \in DOMAIN last_seen' /\ last_seen'[id] = 10)

\* at the end of the cycle of frame 101 no inactive id has an entry last
\* seen at frame 10
C10_GoneAfter101 ==
    (frame_index = 101 /\ pc \in {"acquire", "yielded", "done"}) =>
        \A id \in DOMAIN last_seen : id \notin Keys(objects) => last_seen[id] # 10

\* once the cleanup of a frame >= 101 has run no inactive id has an entry
\* last seen at frame 10
C10_GoneOnceCleaned ==
    C10_Cleaned >= 101 =>
        \A id \in DOMAIN last_seen : id \notin Keys(objects) => last_seen[id] # 10

\* C10 as stated: _cleanup_stale_ids removes exactly the entries of inactive
\* ids with f - s > 90; an entry last seen at frame 10 whose id is inactive
\* is present after the cycle of frame 99 and gone after the cycle of frame
\* 101.
C10_AsStated ==
    [][C10_RemovesExactly /\ C10_StillPresent /\ C10_GoneAfter101']_vars

\* C10 amended: the same, the entry being gone after the first processed
\* cycle of a frame >= 101 (frame 101 itself when the stride divides 101).
C10_StaleCleanup ==
    [][C10_RemovesExactly /\ C10_StillPresent /\ C10_GoneOnceCleaned']_vars

\* C10 witness: under stride 1 the cleanup of frame 101 has removed the
\* entry of identity 0 (not removed at frame 100, so last seen at frame 10)
\* and kept the entry of identity 1, last seen at frame 11 and not active
C10_Witness ==
    /\ skip_frames = 1
    /\ frame_index = 101
    /\ pc = "aggregate"
    /\ stale = {0}
    /\ 1 \in DOMAIN last_seen
    /\ last_seen[1] = 11
    /\ 1 \notin Keys(objects)

-----------------------------------------------------------------------------
(* Failures, disconnects and concurrent requests *)

\* a step of lines 177-179 that stored a new count and appended no event:
\* the append failed for good
AppendFailed ==
    /\ pc = "aggregate"
    /\ pc' # "aggregate"
    /\ lobby_count' # lobby_count
    /\ events' = events

\* C11: when the append of a CountEvent fails in a frame cycle it is tried a
\* second time, and if that fails too generate_frames does not end: the
\* cycle goes on to annotation and later frames, with lobby_count holding
\* the new count.
C11_AsStated ==
    [][AppendFailed =>
        /\ log_attempts' = 2
        /\ pc' = "annotate"
        /\ lobby_count' = Cardinality(active_ids)]_vars

\* C12: a detector error does not end generate_frames: the frame cycle it
\* happens in goes through tracker.update as one with zero detections
\* does, so every step out of the detection stage is an update that leads
\* on to aggregation.
C12_AsStated ==
    [][pc = "track" /\ pc' # "track" =>
        /\ pc' = "aggregate"
        /\ Len(assignments') = Len(detections')
        /\ active_ids' = Keys(objects')]_vars

\* C13: whatever the interleaving of current_stats calls with the frame
\* cycle, no two consecutive CountEvents carry the same lobby_count.
C13_AsStated ==
    \A i \in 1..(Len(events) - 1) : events[i] # events[i + 1]

\* a generator at position p is inside a frame cycle: it has acquired a
\* frame (line 134) and not yet reached the yield or the next read
InCycle(p) == p \in {"track", "aggregate", "annotate"}

\* C14: two consumers of /video_feed never have a frame cycle each in
\* progress on the shared instance: at most one cycle at a time has
\* acquired a frame and is working on the tracker.
C14_AsStated == ~(InCycle(pc) /\ InCycle(other.pc))

\* the candidates of the detection at position i that are at the minimum
\* distance from it among its candidates
C15_Nearest(i) ==
    {id \in C8_Candidates(i) :
        \A c \in C8_Candidates(i) :
            Dist2(detections'[i], Centroid(objects, id))
                <= Dist2(detections'[i], Centroid(objects, c))}

\* C15: a detection that has candidates is assigned the smallest id among
\* those at the minimum distance, so a tie between identities goes to the
\* smaller id whatever the earlier frames were.
C15_AsStated ==
    [][\A i \in 1..Len(detections') :
           C8_Candidates(i) # {} =>
               \A id \in C15_Nearest(i) : assignments'[i] <= id
      ]_vars

\* the state of the instance that outlives a generator
C16_Kept == <<next_id, objects, disappeared, lobby_count, last_seen, frame_index,
              events>>

\* C16: closing the generator at its yield changes nothing of the instance;
\* the closed generator acquires and processes no further frame, the only
\* step after it being a new generate_frames() call, which starts at the
\* top of the loop on the tracker, lobby_count, last_seen and frame_index
\* the closed one left; the first frame the new generator reads gets the
\* next frame index.
C16_DisconnectKeepsState ==
    [][ /\ (pc = "yielded" /\ pc' = "closed") => UNCHANGED C16_Kept
        /\ pc = "closed" =>
               /\ pc' = "acquire"
               /\ calls' = calls + 1
               /\ UNCHANGED C16_Kept
        /\ (calls > 1 /\ pc = "acquire" /\ frame_index' # frame_index) =>
               /\ frame_index' = frame_index + 1
               /\ UNCHANGED <<next_id, objects, disappeared, lobby_count, last_seen>>
      ]_vars

\* C16 witness: identity 0 was created and logged in frame 1, the consumer
\* disconnected at that frame's yield, and a second generate_frames() call
\* processed frame 2, in which identity 0 aged by one update
C16_Witness ==
    /\ calls = 2
    /\ skip_frames = 1
    /\ frame_index = 2
    /\ pc = "yielded"
    /\ Keys(objects) = {0}
    /\ disappeared[0] = 1
    /\ DOMAIN last_seen = {0}
    /\ last_seen[0] = 1
    /\ events = <<1>>

\* C17: once the consumer has disconnected, the instance no longer holds
\* the frame source open.
C17_AsStated == pc = "closed" => ~cap_open

\* the step of lines 185-204 in which cv2.imencode reports failure
EncodeFailed == pc = "annotate" /\ pc' # "yielded" /\ pc' # "annotate"

\* C18: a frame that cannot be encoded is not yielded and generate_frames
\* is back at the top of its loop, where the next step reads the next
\* frame (or finds the source ended); the tracker, lobby_count and events
\* are as the cycle made them and every identity assigned in the cycle is
\* marked seen at this frame, the other last_seen entries being kept.
C18_EncodingFailureSkipsOutput ==
    [][ /\ EncodeFailed =>
               /\ pc' = "acquire"
               /\ UNCHANGED <<next_id, objects, disappeared, lobby_count, events,
                              frame_index>>
               /\ \A id \in Range(assignments) \ {NoneId} :
                      id \in DOMAIN last_seen' /\ last_seen'[id] = frame_index
               /\ \A id \in DOMAIN last_seen :
                      /\ id \in DOMAIN last_seen'
                      /\ id \notin Range(assignments) => last_seen'[id] = last_seen[id]
        /\ pc = "acquire" => pc' = "done" \/ frame_index' = frame_index + 1
      ]_vars

\* C18 witness: frame 1 created identity 0, logged the count 1 and marked
\* identity 0 seen, its encoding failed, and the generator is about to read
\* frame 2
C18_Witness ==
    /\ calls = 1
    /\ skip_frames = 1
    /\ frame_index = 1
    /\ pc = "acquire"
    /\ Keys(objects) = {0}
    /\ lobby_count = 1
    /\ events = <<1>>
    /\ DOMAIN last_seen = {0}
    /\ last_seen[0] = 1

\* C19: the step in which cap.read reports failure ends generate_frames
\* from the top of the loop or from the yield, produces no output and
\* leaves frame_index, the tracker, lobby_count, last_seen and the events
\* alone, and a finished generator takes no further step; on a source of
\* finitely many frames the stream ends eventually, whatever the skip
\* stride and whichever frames fail to encode.
C19_SourceEndTerminates ==
    /\ [][ /\ (pc # "done" /\ pc' = "done") =>
                  /\ pc \in {"acquire", "yielded"}
                  /\ UNCHANGED <<frame_index, next_id, objects, disappeared,
                                 lobby_count, last_seen, events>>
           /\ pc # "done"
         ]_vars
    /\ <>(pc \in {"done", "append_error", "detect_error"})

\* C19 witness: with stride 2 the source supplied all of its frames, of
\* which at least one was processed and logged, and the stream has ended
C19_Witness ==
    /\ pc = "done"
    /\ skip_frames = 2
    /\ frame_index = MaxFramesServe
    /\ events # <<>>

\* a processed frame cycle completes: lines 185-204 are done and the
\* generator is at the yield or back at the top of the loop
CycleCompletes == pc = "annotate" /\ pc' \in {"yielded", "acquire"}

\* C20: when a processed frame cycle completes every active identity has a
\* last_seen entry and every entry is that of an active identity or of one
\* seen at most 90 frames before frame_index; no step removes the entry of
\* an identity that is active after it.
C20_AsStated ==
    [][ /\ CycleCompletes =>
               /\ Keys(objects') \subseteq DOMAIN last_seen'
               /\ \A id \in DOMAIN last_seen' :
                      \/ id \in Keys(objects')
                      \/ frame_index' - last_seen'[id] <= RetentionWindow
        /\ \A id \in DOMAIN last_seen :
               id \in Keys(objects') => id \in DOMAIN last_seen'
      ]_vars

=============================================================================
